---- MODULE Spec2Model ----
(***************************************************************************)
(* SFDX Deploy Guard: the FileMonitor (status-bar conflict monitor) and    *)
(* the SfdxDeployGuard (one-shot check before a deploy), as a state        *)
(* machine over the host editor's event loop.  Every action is one         *)
(* macrotask: an event handler or the continuation of an async function    *)
(* after a gateway (child process) response, a dialog or a timer.          *)
(***************************************************************************)
EXTENDS Integers, Sequences, FiniteSets, TLC

\* null / undefined
None == "none"

(***************************************************************************)
(* Strings are sequences of tokens, so that includes / replace / split /   *)
(* trim are computed and not assumed.                                      *)
(***************************************************************************)
\* String.prototype.includes
Includes(s, pat) ==
    \E i \in 1..(Len(s) - Len(pat) + 1) : SubSeq(s, i, i + Len(pat) - 1) = pat

\* index of the first occurrence of pat in s, 0 when there is none
IndexOf(s, pat) ==
    IF Includes(s, pat)
    THEN CHOOSE i \in 1..(Len(s) - Len(pat) + 1) :
            /\ SubSeq(s, i, i + Len(pat) - 1) = pat
            /\ \A j \in 1..(i - 1) : SubSeq(s, j, j + Len(pat) - 1) # pat
    ELSE 0

\* String.prototype.replace(pat, ''): only the first occurrence is removed
ReplaceFirst(s, pat) ==
    LET i == IndexOf(s, pat)
    IN  IF i = 0 THEN s
        ELSE SubSeq(s, 1, i - 1) \o SubSeq(s, i + Len(pat), Len(s))

\* s.split(pat)[1]: what follows the first occurrence of pat
\* (callers cut it at the next separator, which comes no later than the
\* next occurrence of pat)
AfterFirst(s, pat) ==
    LET i == IndexOf(s, pat)
    IN  SubSeq(s, i + Len(pat), Len(s))

\* s.split(sep)[0]: what precedes the first occurrence of the token sep
UpTo(s, sep) ==
    LET i == IndexOf(s, <<sep>>)
    IN  IF i = 0 THEN s ELSE SubSeq(s, 1, i - 1)

\* path.basename (posix): what follows the last "/"
RECURSIVE Basename(_)
Basename(p) ==
    IF Includes(p, <<"/">>) THEN Basename(AfterFirst(p, <<"/">>)) ELSE p

(***************************************************************************)
(* The documents of the workspace, by path.                                *)
(***************************************************************************)
ClsPath  == <<"/", "force-app", "/", "classes", "/", "Foo", ".cls">>
LwcPath  == <<"/", "force-app", "/", "lwc", "/", "bar", "/", "bar", ".js">>
ObjPath  == <<"/", "force-app", "/", "objects", "/", "Acc", ".object", "-meta.xml">>
TxtPath  == <<"/", "notes", "/", "todo", ".txt">>
PagePath == <<"/", "src", "/", "pages", "/", "Home", ".page">>

\* the files a deploy can be asked for
Uris == {"Foo.cls", "bar.js", "Acc.object", "todo.txt", "Home.page"}

\* the documents opened in an editor (an editor is named by its document)
Docs == {"Foo.cls", "bar.js", "todo.txt", "Home.page"}

\* document.uri.fsPath
fsPath(doc) ==
    CASE doc = "Foo.cls"    -> ClsPath
      [] doc = "bar.js"     -> LwcPath
      [] doc = "Acc.object" -> ObjPath
      [] doc = "todo.txt"   -> TxtPath
      [] doc = "Home.page"  -> PagePath

\* FileMonitor.isSalesforceFile
isSalesforceFile(filePath) ==
    \/ Includes(filePath, <<"/", "force-app", "/">>)
    \/ Includes(filePath, <<"\\", "force-app", "\\">>)
    \/ Includes(filePath, <<"/", "classes", "/">>)
    \/ Includes(filePath, <<"\\", "classes", "\\">>)
    \/ Includes(filePath, <<"/", "triggers", "/">>)
    \/ Includes(filePath, <<"\\", "triggers", "\\">>)
    \/ Includes(filePath, <<"/", "lwc", "/">>)
    \/ Includes(filePath, <<"\\", "lwc", "\\">>)
    \/ Includes(filePath, <<"/", "aura", "/">>)
    \/ Includes(filePath, <<"\\", "aura", "\\">>)

\* filePath.includes('/seg/') || filePath.includes('\\seg\\')
InDir(filePath, seg) ==
    \/ Includes(filePath, <<"/", seg, "/">>)
    \/ Includes(filePath, <<"\\", seg, "\\">>)

\* getMetadataInfo returning null
NoMetadata == [type |-> "", apiName |-> <<>>, filePath |-> <<>>]

\* if (!metadataType || !apiName) return null; else the MetadataInfo
MetadataResult(metadataType, apiName, filePath) ==
    IF metadataType = "" \/ apiName = <<>>
    THEN NoMetadata
    ELSE [type |-> metadataType, apiName |-> apiName, filePath |-> filePath]

\* FileMonitor.getMetadataInfo: the metadata type chosen by the if-chain
MonitorType(filePath) ==
    IF InDir(filePath, "classes") THEN "ApexClass"
    ELSE IF InDir(filePath, "triggers") THEN "ApexTrigger"
    ELSE IF InDir(filePath, "pages") THEN "ApexPage"
    ELSE IF InDir(filePath, "components") THEN "ApexComponent"
    ELSE IF Includes(filePath, <<"/", "lwc", "/">>) THEN "LightningComponentBundle"
    ELSE IF Includes(filePath, <<"\\", "lwc", "\\">>) THEN "LightningComponentBundle"
    ELSE IF Includes(filePath, <<"/", "aura", "/">>) THEN "AuraDefinitionBundle"
    ELSE IF Includes(filePath, <<"\\", "aura", "\\">>) THEN "AuraDefinitionBundle"
    ELSE ""

\* FileMonitor.getMetadataInfo: the api name computed in the chosen branch
MonitorName(filePath) ==
    LET fileName == Basename(filePath)
    IN  IF InDir(filePath, "classes")
        THEN ReplaceFirst(ReplaceFirst(fileName, <<".cls">>), <<".cls", "-meta.xml">>)
        ELSE IF InDir(filePath, "triggers")
        THEN ReplaceFirst(ReplaceFirst(fileName, <<".trigger">>), <<".trigger", "-meta.xml">>)
        ELSE IF InDir(filePath, "pages")
        THEN ReplaceFirst(ReplaceFirst(fileName, <<".page">>), <<".page", "-meta.xml">>)
        ELSE IF InDir(filePath, "components")
        THEN ReplaceFirst(ReplaceFirst(fileName, <<".component">>), <<".component", "-meta.xml">>)
        ELSE IF Includes(filePath, <<"/", "lwc", "/">>)
        THEN UpTo(AfterFirst(filePath, <<"/", "lwc", "/">>), "/")
        ELSE IF Includes(filePath, <<"\\", "lwc", "\\">>)
        THEN UpTo(AfterFirst(filePath, <<"\\", "lwc", "\\">>), "\\")
        ELSE IF Includes(filePath, <<"/", "aura", "/">>)
        THEN UpTo(AfterFirst(filePath, <<"/", "aura", "/">>), "/")
        ELSE IF Includes(filePath, <<"\\", "aura", "\\">>)
        THEN UpTo(AfterFirst(filePath, <<"\\", "aura", "\\">>), "\\")
        ELSE <<>>

\* FileMonitor.getMetadataInfo
MonitorMetadataInfo(filePath) ==
    MetadataResult(MonitorType(filePath), MonitorName(filePath), filePath)

\* SfdxDeployGuard.getMetadataInfo: the metadata type chosen by the if-chain
GuardType(filePath) ==
    IF InDir(filePath, "classes") THEN "ApexClass"
    ELSE IF InDir(filePath, "triggers") THEN "ApexTrigger"
    ELSE IF InDir(filePath, "pages") THEN "ApexPage"
    ELSE IF InDir(filePath, "components") THEN "ApexComponent"
    ELSE IF Includes(filePath, <<"/", "lwc", "/">>) THEN "LightningComponentBundle"
    ELSE IF Includes(filePath, <<"\\", "lwc", "\\">>) THEN "LightningComponentBundle"
    ELSE IF Includes(filePath, <<"/", "aura", "/">>) THEN "AuraDefinitionBundle"
    ELSE IF Includes(filePath, <<"\\", "aura", "\\">>) THEN "AuraDefinitionBundle"
    ELSE IF InDir(filePath, "objects") THEN "CustomObject"
    ELSE IF InDir(filePath, "flows") THEN "Flow"
    ELSE IF InDir(filePath, "profiles") THEN "Profile"
    ELSE IF InDir(filePath, "permissionsets") THEN "PermissionSet"
    ELSE IF InDir(filePath, "staticresources") THEN "StaticResource"
    ELSE IF InDir(filePath, "labels") THEN "CustomLabels"
    ELSE IF InDir(filePath, "layouts") THEN "Layout"
    ELSE IF InDir(filePath, "quickActions") THEN "QuickAction"
    ELSE IF InDir(filePath, "tabs") THEN "CustomTab"
    ELSE IF InDir(filePath, "flexipages") THEN "FlexiPage"
    ELSE IF InDir(filePath, "email") THEN "EmailTemplate"
    ELSE ""

\* SfdxDeployGuard.getMetadataInfo: the api name computed in the chosen branch
GuardName(filePath) ==
    LET fileName == Basename(filePath)
        t == GuardType(filePath)
    IN  IF t = "ApexClass"
        THEN ReplaceFirst(ReplaceFirst(fileName, <<".cls">>), <<".cls", "-meta.xml">>)
        ELSE IF t = "ApexTrigger"
        THEN ReplaceFirst(ReplaceFirst(fileName, <<".trigger">>), <<".trigger", "-meta.xml">>)
        ELSE IF t = "ApexPage"
        THEN ReplaceFirst(ReplaceFirst(fileName, <<".page">>), <<".page", "-meta.xml">>)
        ELSE IF t = "ApexComponent"
        THEN ReplaceFirst(ReplaceFirst(fileName, <<".component">>), <<".component", "-meta.xml">>)
        ELSE IF Includes(filePath, <<"/", "lwc", "/">>) /\ t = "LightningComponentBundle"
        THEN UpTo(AfterFirst(filePath, <<"/", "lwc", "/">>), "/")
        ELSE IF t = "LightningComponentBundle"
        THEN UpTo(AfterFirst(filePath, <<"\\", "lwc", "\\">>), "\\")
        ELSE IF Includes(filePath, <<"/", "aura", "/">>) /\ t = "AuraDefinitionBundle"
        THEN UpTo(AfterFirst(filePath, <<"/", "aura", "/">>), "/")
        ELSE IF t = "AuraDefinitionBundle"
        THEN UpTo(AfterFirst(filePath, <<"\\", "aura", "\\">>), "\\")
        ELSE IF t = "CustomObject" THEN ReplaceFirst(fileName, <<".object", "-meta.xml">>)
        ELSE IF t = "Flow" THEN ReplaceFirst(fileName, <<".flow", "-meta.xml">>)
        ELSE IF t = "Profile" THEN ReplaceFirst(fileName, <<".profile", "-meta.xml">>)
        ELSE IF t = "PermissionSet" THEN ReplaceFirst(fileName, <<".permissionset", "-meta.xml">>)
        ELSE IF t = "StaticResource" THEN IF fileName = <<>> THEN <<>> ELSE <<Head(fileName)>>
        ELSE IF t = "CustomLabels" THEN <<"CustomLabels">>
        ELSE IF t = "Layout" THEN ReplaceFirst(fileName, <<".layout", "-meta.xml">>)
        ELSE IF t = "QuickAction" THEN ReplaceFirst(fileName, <<".quickAction", "-meta.xml">>)
        ELSE IF t = "CustomTab" THEN ReplaceFirst(fileName, <<".tab", "-meta.xml">>)
        ELSE IF t = "FlexiPage" THEN ReplaceFirst(fileName, <<".flexipage", "-meta.xml">>)
        ELSE IF t = "EmailTemplate"
        THEN ReplaceFirst(ReplaceFirst(
                 IF Includes(filePath, <<"/", "email", "/">>)
                 THEN AfterFirst(filePath, <<"/", "email", "/">>)
                 ELSE AfterFirst(filePath, <<"\\", "email", "\\">>),
                 <<".email", "-meta.xml">>), <<".email">>)
        ELSE <<>>

\* SfdxDeployGuard.getMetadataInfo
GuardMetadataInfo(filePath) ==
    MetadataResult(GuardType(filePath), GuardName(filePath), filePath)

(***************************************************************************)
(* Configuration: sfdxDeployGuard.ignoreUserIds is a comma-separated       *)
(* string.                                                                 *)
(***************************************************************************)
\* s.split(','): the pieces between commas, in order
RECURSIVE Split(_, _)
Split(s, sep) ==
    IF Includes(s, <<sep>>)
    THEN <<UpTo(s, sep)>> \o Split(AfterFirst(s, <<sep>>), sep)
    ELSE <<s>>

\* String.prototype.trim: blanks dropped at both ends
RECURSIVE Trim(_)
Trim(s) ==
    IF s = <<>> THEN s
    ELSE IF Head(s) = " " THEN Trim(Tail(s))
    ELSE IF s[Len(s)] = " " THEN Trim(SubSeq(s, 1, Len(s) - 1))
    ELSE s

\* getIgnoredUserIds (the same in both classes): split, trim, drop empties
getIgnoredUserIds(ignoreUserIds) ==
    IF ignoreUserIds = <<>> THEN {}
    ELSE LET pieces == Split(ignoreUserIds, ",")
         IN  {Trim(pieces[i]) : i \in 1..Len(pieces)} \ {<<>>}

\* the membership test against the pieces as split, not trimmed
isIgnoredUserUntrimmed(id, ignoreUserIds) ==
    LET pieces == Split(ignoreUserIds, ",")
    IN  id # "" /\ \E i \in 1..Len(pieces) : pieces[i] = <<id>>

\* lastModifiedInfo.id && ignoredUserIds.includes(lastModifiedInfo.id)
isIgnoredUser(id, ignoreUserIds) ==
    id # "" /\ <<id>> \in getIgnoredUserIds(ignoreUserIds)

\* the values of sfdxDeployGuard.ignoreUserIds the model draws from
IgnoreStrings ==
    { <<>>,
      <<"U2">>,
      <<" ", "U1", " ", ",", ",", " ", "U2">> }

(***************************************************************************)
(* The Remote Metadata Gateway: what a child process (sf ...) can answer.  *)
(* An answer is the parsed envelope {status, result}; Fail stands for a    *)
(* process error, unparseable stdout or a non-zero status, which the       *)
(* callers treat alike.                                                    *)
(***************************************************************************)
Fail == [status |-> 1, result |-> <<>>]
Ok(result) == [status |-> 0, result |-> result]

\* a LastModifiedInfo that is null
NoInfo == [name |-> None, id |-> None, date |-> None]

UserIds == {"U1", "U2"}

\* new Date(x).toLocaleString()
toLocaleString(d) ==
    IF d = "d1" THEN "D1" ELSE IF d = "d2" THEN "D2" ELSE "Invalid Date"

\* records of `sf data query` on a metadata table: one by each user, and one
\* that lacks the modifier's name and id
ToolingRecords ==
    {[Name |-> "Jane", LastModifiedById |-> i, LastModifiedDate |-> "d1"] : i \in UserIds}
    \cup {[Name |-> None, LastModifiedById |-> None, LastModifiedDate |-> "d1"]}

\* the answers to the direct lookup the model draws from: a failure, no
\* record, one record, or a record followed by one of another modifier
ToolingResponses ==
    {Fail, Ok(<<>>)} \cup {Ok(<<r>>) : r \in ToolingRecords}
                     \cup {Ok(<<r1, r2>>) : r1 \in ToolingRecords,
                                            r2 \in {r \in ToolingRecords : r.Name = None}}

\* the metadata kinds getLastModifiedViaTooling has a query for
ToolingTypes ==
    {"ApexClass", "ApexTrigger", "ApexPage", "ApexComponent",
     "LightningComponentBundle", "AuraDefinitionBundle"}

\* getLastModifiedViaTooling (the same in both classes), given the answer
\* to its query: null for a kind without a query, else the first record
getLastModifiedViaTooling(metadata, resp) ==
    IF metadata.type \notin ToolingTypes THEN NoInfo
    ELSE IF resp.status # 0 THEN NoInfo
    ELSE IF Len(resp.result) > 0
    THEN LET record == resp.result[1]
         IN  [name |-> IF record.Name = None THEN "Unknown" ELSE record.Name,
              id   |-> IF record.LastModifiedById = None THEN "" ELSE record.LastModifiedById,
              date |-> toLocaleString(record.LastModifiedDate)]
    ELSE NoInfo

\* entries of `sf org list metadata` (<<>>: an entry without fileName, which
\* matches nothing, as item.fileName?.includes does)
ListItems ==
    {[fullName |-> f[1], fileName |-> f[2], lastModifiedByName |-> "Jane",
      lastModifiedById |-> i, lastModifiedDate |-> None] :
        f \in {<< <<"Foo">>, <<>> >>,
                << <<"bar">>, <<"classes", "/", "Foo", ".cls">> >>,
                << <<"bar">>, <<>> >>},
        i \in {None, "U2"}}

\* the answers to the enumeration the model draws from: a failure, no
\* entry, one entry, or an entry by U2 behind one without a modifier id
ListResponses ==
    {Fail, Ok(<<>>)} \cup {Ok(<<x>>) : x \in ListItems}
                     \cup {Ok(<<y, x>>) : x \in {z \in ListItems : z.lastModifiedById = "U2"},
                                          y \in {z \in ListItems : z.lastModifiedById = None}}

\* the callback of metadataItems.find
Matches(item, apiName) ==
    \/ item.fullName = apiName
    \/ Includes(item.fileName, apiName)

\* Array.prototype.find: the entries from the first match on (<<>>: undefined)
RECURSIVE FindMatch(_, _)
FindMatch(items, apiName) ==
    IF items = <<>> THEN <<>>
    ELSE IF Matches(Head(items), apiName) THEN items
    ELSE FindMatch(Tail(items), apiName)

\* getLastModifiedViaListMetadata (the same in both classes), given the
\* answer to its enumeration
getLastModifiedViaListMetadata(metadata, resp) ==
    IF resp.status # 0 THEN NoInfo
    ELSE LET found == FindMatch(resp.result, metadata.apiName)
             matchingItem == Head(found)
         IN  IF found = <<>> THEN NoInfo
             ELSE [name |-> IF matchingItem.lastModifiedByName = None THEN "Unknown"
                            ELSE matchingItem.lastModifiedByName,
                   id   |-> IF matchingItem.lastModifiedById = None THEN ""
                            ELSE matchingItem.lastModifiedById,
                   date |-> IF matchingItem.lastModifiedDate = None THEN "Unknown"
                            ELSE toLocaleString(matchingItem.lastModifiedDate)]

\* getLastModifiedInfo with the last record of the direct lookup for the first
getLastModifiedInfoLastRecord(metadata, toolingResp, listResp) ==
    LET last == [toolingResp EXCEPT !.result =
                    IF @ = <<>> THEN @ ELSE <<@[Len(@)]>>]
        toolingResult == getLastModifiedViaTooling(metadata, last)
    IN  IF toolingResult # NoInfo THEN toolingResult
        ELSE getLastModifiedViaListMetadata(metadata, listResp)

\* getLastModifiedInfo (the same in both classes): the direct lookup, and
\* the enumeration when that gave nothing
getLastModifiedInfo(metadata, toolingResp, listResp) ==
    LET toolingResult == getLastModifiedViaTooling(metadata, toolingResp)
    IN  IF toolingResult # NoInfo THEN toolingResult
        ELSE getLastModifiedViaListMetadata(metadata, listResp)

\* `sf config get target-org`: failure, no default org, or the org
UsernameResponses == {Fail, Ok(<<>>), Ok(<<"org">>)}

\* getDefaultUsername (the same in both classes), given the answer
getDefaultUsername(resp) ==
    IF resp.status # 0 THEN None
    ELSE IF Len(resp.result) > 0 THEN resp.result[1] ELSE None

\* `sf org display`: failure or the org's user name
OrgDisplayResponses == {Fail, Ok(<<"me@org">>)}

\* `SELECT Id FROM User WHERE Username=...`: failure, no row, or the id
UserQueryResponses == {Fail, Ok(<<>>), Ok(<<"U1">>)}

\* getCurrentUserId (the same in both classes), given the answers to its
\* two queries; the second is not issued when the first fails
getCurrentUserId(orgResp, userResp) ==
    IF orgResp.status # 0 \/ orgResp.result = <<>> THEN ""
    ELSE IF userResp.status # 0 THEN ""
    ELSE IF Len(userResp.result) > 0 THEN userResp.result[1] ELSE ""

(***************************************************************************)
(* Program constants.                                                      *)
(***************************************************************************)
\* setInterval(..., 10000) of startPolling
PollPeriod == 10000
\* setTimeout(..., 10000) of onUserTyping
EditingDelay == 10000
\* pollCountAfterEdit < 2
GracePolls == 2
\* setInterval(..., 1000) of startBlinking
BlinkPeriod == 1000

(***************************************************************************)
(* Time.  The poll timer and the editing timeout are counted down in       *)
(* steps of TimeUnit and fire when no time is left on them.  The blink     *)
(* period is shorter than TimeUnit: a blink timer is not counted down and  *)
(* fires at any moment.                                                    *)
(***************************************************************************)
TimeUnit == PollPeriod \div 2

\* the time since the last edit is measured up to here; it stands there
\* when the watched document has not been edited
Horizon == 4 * PollPeriod + TimeUnit

\* no timer is outstanding
NoTimers == [poll |-> <<>>, editing |-> <<>>, blink |-> <<>>]

\* setInterval / setTimeout: one more timer of the kind, delay from now
setTimer(ts, kind, delay) == [ts EXCEPT ![kind] = Append(@, delay)]

\* clearInterval / clearTimeout on the handle a field holds, which is that
\* of the timer of the kind set last
clearTimer(ts, kind) ==
    [ts EXCEPT ![kind] = IF @ = <<>> THEN @ ELSE SubSeq(@, 1, Len(@) - 1)]

\* the k-th timer of the kind goes (a timeout that fired)
dropTimer(ts, kind, k) ==
    [ts EXCEPT ![kind] = SubSeq(@, 1, k - 1) \o SubSeq(@, k + 1, Len(@))]

(***************************************************************************)
(* Bounds of the model.                                                    *)
(***************************************************************************)
\* polls (checkFileStatus calls) awaiting the gateway at one time
MaxPolls == 2
\* invocations of the deploy command
MaxInvocations == 1

(***************************************************************************)
(* State.                                                                  *)
(***************************************************************************)
VARIABLES
    config,             \* the sfdxDeployGuard settings
    activeTextEditor,   \* vscode.window.activeTextEditor (an editor is its document)
    instance,           \* FileMonitor.instance is set (a FileMonitor was constructed)
    currentEditor,      \* FileMonitor.currentEditor
    lastKnownModifier,  \* FileMonitor.lastKnownModifier
    currentUserId,      \* FileMonitor.currentUserId
    isUserEditing,      \* FileMonitor.isUserEditing
    pollCountAfterEdit, \* FileMonitor.pollCountAfterEdit
    pollInterval,       \* FileMonitor.pollInterval: 0 (undefined) or the period of the running timer
    editingTimeout,     \* FileMonitor.editingTimeout: "none", "pending" or "fired" (a stale handle)
    blinkInterval,      \* FileMonitor.blinkInterval: 0 (undefined) or the period of the running timer
    isBlinkYellow,      \* FileMonitor.isBlinkYellow
    statusBar,          \* FileMonitor.statusBarItem: visible, text, tooltip, color
    decorations,        \* the editors that carry the warning decoration on line 0
    polls,              \* the checkFileStatus calls awaiting the gateway, oldest first
    messages,           \* what the FileMonitor has shown through window.show*Message
    timers,             \* the host's outstanding timers of the FileMonitor: per kind, the time left on each
    sinceEdit,          \* the time since the last edit of the watched document, up to Horizon
    event,              \* how a poll ended in the step just taken, if one did
    call,               \* a call of a helper looked at by itself: its arguments and what it returned
    guard               \* the invocations of the deploy command

monitorVars ==
    <<currentEditor, lastKnownModifier, currentUserId, isUserEditing,
      pollCountAfterEdit, pollInterval, editingTimeout, blinkInterval,
      isBlinkYellow, statusBar, decorations, polls, messages, timers, sinceEdit>>

vars == <<config, activeTextEditor, instance, call, monitorVars, event, guard>>

\* no helper is looked at by itself
NoCall == [fn |-> None]

Configs ==
    [enabled : BOOLEAN, checkLastModified : BOOLEAN,
     enableRealTimeMonitoring : BOOLEAN, ignoreUserIds : IgnoreStrings]

\* the defaults of the settings
DefaultConfig ==
    [enabled |-> TRUE, checkLastModified |-> TRUE,
     enableRealTimeMonitoring |-> TRUE, ignoreUserIds |-> <<>>]

\* a step in which no poll ended
NoEvent == [poll |-> None, doc |-> None, info |-> NoInfo, failed |-> FALSE]

\* a step in which a poll of doc ended: "disabled", "unrecognized",
\* "noUsername", "absent" or "shown" (with the modifier record shown);
\* failed: it made gateway calls and every one of them failed
EvPoll(outcome, doc, info, failed) ==
    [poll |-> outcome, doc |-> doc, info |-> info, failed |-> failed]

\* a deploy command invocation that has not been made.  uri: the argument of
\* the command; fileUri, info, currentUserId, ignoreUserIds: the locals of
\* checkBeforeDeploy; queried: it made a gateway call; classified: it
\* reached the comparison of the two ids; dialog: it showed the modal
\* warning; choice: the answer to it; compared: the argument of
\* executeCompare; notices: the non-modal messages shown; returned, proceed:
\* checkBeforeDeploy returned, and what; outcome: where it returned;
\* started: executeDeploy was called; deployed: the file it deploys;
\* refresh: its refresh timeout is pending
IdleInvocation ==
    [pc |-> "idle", uri |-> None, fileUri |-> None, info |-> NoInfo,
     currentUserId |-> "", ignoreUserIds |-> <<>>, queried |-> FALSE,
     classified |-> FALSE, dialog |-> FALSE, choice |-> None, compared |-> None,
     notices |-> {}, returned |-> FALSE, proceed |-> FALSE, outcome |-> None,
     started |-> FALSE, deployed |-> None, refresh |-> FALSE]

NoLabel == [who |-> None, date |-> None]

\* the status bar item as created: not shown, no text
NewStatusBar ==
    [visible |-> FALSE, text |-> NoLabel, tooltip |-> NoLabel, color |-> None]

MonitorInit ==
    /\ currentEditor = None
    /\ lastKnownModifier = NoInfo
    /\ currentUserId = ""
    /\ isUserEditing = FALSE
    /\ pollCountAfterEdit = 0
    /\ pollInterval = 0
    /\ editingTimeout = "none"
    /\ blinkInterval = 0
    /\ isBlinkYellow = TRUE
    /\ statusBar = NewStatusBar
    /\ decorations = {}
    /\ polls = <<>>
    /\ messages = {}
    /\ timers = NoTimers
    /\ sinceEdit = Horizon

\* the settings the monitor reads, varied
MonitorConfigs ==
    {c \in Configs : c.enabled /\ c.checkLastModified}

\* the extension activated with no editor open
Init ==
    /\ config \in MonitorConfigs
    /\ activeTextEditor = None
    /\ instance = TRUE
    /\ call = NoCall
    /\ MonitorInit
    /\ event = NoEvent
    /\ guard = [i \in 1..MaxInvocations |-> IdleInvocation]

(***************************************************************************)
(* Tables of the pure functions above over the model's documents and       *)
(* settings, computed once.                                                *)
(***************************************************************************)
MonitorInfoOf == [d \in Docs |-> MonitorMetadataInfo(fsPath(d))]
GuardInfoOf == [d \in Uris |-> GuardMetadataInfo(fsPath(d))]
SalesforceFiles == {d \in Docs : isSalesforceFile(fsPath(d))}
IgnoredIn == [s \in IgnoreStrings |-> {id \in UserIds \cup {""} : isIgnoredUser(id, s)}]

(***************************************************************************)
(* FileMonitor: the synchronous helpers.                                   *)
(***************************************************************************)
\* statusBarItem.hide()
Hide(sb) == [sb EXCEPT !.visible = FALSE]

\* stopBlinking: the blink timer is cleared when the field holds its handle
stopBlinking(ts) == IF blinkInterval # 0 THEN clearTimer(ts, "blink") ELSE ts

\* stopPolling: the poll timer and the editing timeout are cleared when the
\* fields hold their handles (clearing a timeout that fired does nothing)
stopPolling(ts) ==
    LET polled == IF pollInterval # 0 THEN clearTimer(ts, "poll") ELSE ts
    IN  IF editingTimeout = "pending" THEN clearTimer(polled, "editing") ELSE polled

\* the timers onUserTyping leaves when it starts the poll timer unasked
onUserTypingRestart(ts) ==
    LET started == setTimer(ts, "poll", PollPeriod)
        cleared == IF editingTimeout = "pending" THEN clearTimer(started, "editing")
                   ELSE started
    IN  setTimer(cleared, "editing", EditingDelay)

\* the timers onUserTyping leaves when it lets a pending editing timeout run
onUserTypingKeepTimeout(ts) ==
    LET started == IF pollInterval = 0 THEN setTimer(ts, "poll", PollPeriod) ELSE ts
    IN  IF editingTimeout = "pending" THEN started
        ELSE setTimer(started, "editing", EditingDelay)

\* the timers onUserTyping leaves: the poll timer is started unless the
\* field holds one, and the editing timeout is cleared and set anew
onUserTyping(ts) ==
    LET started == IF pollInterval = 0 THEN setTimer(ts, "poll", PollPeriod) ELSE ts
        cleared == IF editingTimeout = "pending" THEN clearTimer(started, "editing")
                   ELSE started
    IN  setTimer(cleared, "editing", EditingDelay)

\* updateStatusBar without the call of startBlinking
updateStatusBarNoBlink(lastModifiedInfo, sb) ==
    LET isCurrentUser == lastModifiedInfo.id = currentUserId
        label == [who  |-> IF isCurrentUser THEN "You" ELSE lastModifiedInfo.name,
                  date |-> lastModifiedInfo.date]
    IN  [statusBar |-> [visible |-> TRUE, text |-> label, tooltip |-> label,
                        color |-> None],
         blinkInterval |-> 0,
         isBlinkYellow |-> isBlinkYellow,
         timers |-> stopBlinking(timers)]

\* updateStatusBar: the status bar item, the blink timer and the blink
\* phase it leaves (stopBlinking, then startBlinking for a conflict)
updateStatusBar(lastModifiedInfo, sb) ==
    LET isCurrentUser == lastModifiedInfo.id = currentUserId
        ignored == lastModifiedInfo.id \in IgnoredIn[config.ignoreUserIds]
        label == [who  |-> IF isCurrentUser THEN "You" ELSE lastModifiedInfo.name,
                  date |-> lastModifiedInfo.date]
    IN  IF isCurrentUser \/ ignored
        THEN [statusBar |-> [visible |-> TRUE, text |-> label, tooltip |-> label,
                             color |-> None],
              blinkInterval |-> 0,
              isBlinkYellow |-> isBlinkYellow,
              timers |-> stopBlinking(timers)]
        ELSE [statusBar |-> [visible |-> TRUE, text |-> label, tooltip |-> label,
                             color |-> "warning"],
              blinkInterval |-> BlinkPeriod,
              isBlinkYellow |-> TRUE,
              timers |-> setTimer(stopBlinking(timers), "blink", BlinkPeriod)]

\* the branch of checkFileStatus after updateStatusBar, without the call of
\* clearDecorations
decorateNoClear(lastModifiedInfo, decos) ==
    LET ignored == lastModifiedInfo.id \in IgnoredIn[config.ignoreUserIds]
    IN  IF currentEditor = None THEN decos
        ELSE IF lastModifiedInfo.id # currentUserId /\ ~ignored
        THEN decos \cup {currentEditor}
        ELSE decos

\* the branch of checkFileStatus after updateStatusBar: showWarningDecoration
\* or clearDecorations, both on this.currentEditor and both nothing without one
decorate(lastModifiedInfo, decos) ==
    LET ignored == lastModifiedInfo.id \in IgnoredIn[config.ignoreUserIds]
    IN  IF currentEditor = None THEN decos
        ELSE IF lastModifiedInfo.id # currentUserId /\ ~ignored
        THEN decos \cup {currentEditor}
        ELSE decos \ {currentEditor}

\* checkFileStatus up to its first gateway call, for the editor ed and the
\* status bar sb: the status bar and the polls it leaves, and how it went
beginCheck(ed, sb) ==
    IF ed = None
    THEN [statusBar |-> sb, polls |-> polls, ev |-> NoEvent]
    ELSE IF ~config.enableRealTimeMonitoring
    THEN [statusBar |-> Hide(sb), polls |-> polls,
          ev |-> EvPoll("disabled", ed, NoInfo, FALSE)]
    ELSE IF MonitorInfoOf[ed] = NoMetadata
    THEN [statusBar |-> Hide(sb), polls |-> polls,
          ev |-> EvPoll("unrecognized", ed, NoInfo, FALSE)]
    ELSE [statusBar |-> sb,
          polls |-> Append(polls, [doc |-> ed, pc |-> "getDefaultUsername",
                                   allFailed |-> TRUE, overtaken |-> FALSE]),
          ev |-> NoEvent]

\* the bound on polls in flight: a check may begin when it can be held
CanBegin == Len(polls) < MaxPolls

\* polls when the i-th has ended: the polls begun before it are overtaken
\* (a poll begun after them has ended)
Without(i) ==
    [j \in 1..(i - 1) |-> [polls[j] EXCEPT !.overtaken = TRUE]]
        \o SubSeq(polls, i + 1, Len(polls))

(***************************************************************************)
(* FileMonitor: the event handlers and the continuations of                *)
(* checkFileStatus.  A continuation runs when the helper it awaits         *)
(* returns; a helper touches no field of the monitor between its gateway   *)
(* calls, so it is one step given the answers to its calls.                *)
(***************************************************************************)
\* onDidChangeActiveTextEditor -> onEditorChanged(editor)
EditorChanged(editor) ==
    /\ instance
    /\ editor # activeTextEditor
    /\ activeTextEditor' = editor
    /\ currentEditor' = editor
    /\ isUserEditing' = FALSE
    /\ pollCountAfterEdit' = 0
    \* stopPolling
    /\ pollInterval' = 0
    /\ editingTimeout' = "none"
    /\ timers' = stopPolling(timers)
    /\ sinceEdit' = Horizon
    /\ IF editor # None /\ editor \in SalesforceFiles
       THEN /\ CanBegin
            /\ LET c == beginCheck(editor, statusBar)
               IN  /\ statusBar' = c.statusBar
                   /\ polls' = c.polls
                   /\ event' = c.ev
            /\ UNCHANGED decorations
       ELSE /\ statusBar' = Hide(statusBar)
            \* clearDecorations acts on the new this.currentEditor
            /\ decorations' = decorations \ {editor}
            /\ event' = NoEvent
            /\ UNCHANGED polls
    /\ UNCHANGED <<config, instance, call, lastKnownModifier, currentUserId,
                   blinkInterval, isBlinkYellow, messages, guard>>

\* onDidChangeTextDocument of the active document -> onUserTyping
UserTyping ==
    /\ instance
    /\ activeTextEditor # None
    /\ isUserEditing' = TRUE
    /\ pollCountAfterEdit' = 0
    /\ pollInterval' = IF pollInterval = 0 THEN PollPeriod ELSE pollInterval
    /\ editingTimeout' = "pending"
    /\ timers' = onUserTyping(timers)
    /\ sinceEdit' = 0
    /\ event' = NoEvent
    /\ UNCHANGED <<config, activeTextEditor, instance, call, currentEditor,
                   lastKnownModifier, currentUserId, blinkInterval, isBlinkYellow,
                   statusBar, decorations, polls, messages, guard>>

\* the callback of editingTimeout
EditingTimeoutFires ==
    /\ \E k \in 1..Len(timers.editing) :
          /\ timers.editing[k] = 0
          /\ timers' = dropTimer(timers, "editing", k)
          /\ editingTimeout' = IF k = Len(timers.editing) THEN "fired"
                               ELSE editingTimeout
    /\ isUserEditing' = FALSE
    /\ event' = NoEvent
    /\ UNCHANGED <<config, activeTextEditor, instance, call, currentEditor,
                   lastKnownModifier, currentUserId, pollCountAfterEdit,
                   pollInterval, blinkInterval, isBlinkYellow, statusBar,
                   decorations, polls, messages, sinceEdit, guard>>

\* the grace test without the count: polls go on while nobody edits
inGraceForever == ~isUserEditing

\* the grace test with one poll more allowed
inGraceOneMore == ~isUserEditing /\ pollCountAfterEdit <= GracePolls

\* the second test of the poll timer's callback: the user stopped editing
\* and grace polls are left
inGrace == ~isUserEditing /\ pollCountAfterEdit < GracePolls

\* the callback of pollInterval (startPolling)
PollTimerFires ==
    \E k \in 1..Len(timers.poll) :
       /\ timers.poll[k] = 0
       /\ LET again == [timers EXCEPT !.poll[k] = PollPeriod]
          IN  IF isUserEditing /\ currentEditor # None
              THEN /\ CanBegin
                   /\ LET c == beginCheck(currentEditor, statusBar)
                      IN  /\ statusBar' = c.statusBar
                          /\ polls' = c.polls
                          /\ event' = c.ev
                   /\ timers' = again
                   /\ UNCHANGED <<pollCountAfterEdit, pollInterval, editingTimeout>>
              ELSE IF inGrace
              THEN /\ CanBegin
                   /\ pollCountAfterEdit' = pollCountAfterEdit + 1
                   /\ LET c == beginCheck(currentEditor, statusBar)
                      IN  /\ statusBar' = c.statusBar
                          /\ polls' = c.polls
                          /\ event' = c.ev
                   /\ timers' = again
                   /\ UNCHANGED <<pollInterval, editingTimeout>>
              ELSE \* stopPolling
                   /\ pollInterval' = 0
                   /\ editingTimeout' = "none"
                   /\ timers' = stopPolling(again)
                   /\ event' = NoEvent
                   /\ UNCHANGED <<pollCountAfterEdit, statusBar, polls>>
       /\ UNCHANGED <<config, activeTextEditor, instance, call, currentEditor,
                      lastKnownModifier, currentUserId, isUserEditing, blinkInterval,
                      isBlinkYellow, decorations, messages, sinceEdit, guard>>

\* the callback of blinkInterval (startBlinking)
BlinkTimerFires ==
    /\ timers.blink # <<>>
    /\ statusBar' = [statusBar EXCEPT !.color = IF isBlinkYellow THEN "error" ELSE "warning"]
    /\ isBlinkYellow' = ~isBlinkYellow
    /\ event' = NoEvent
    /\ UNCHANGED <<config, activeTextEditor, instance, call, currentEditor,
                   lastKnownModifier, currentUserId, isUserEditing,
                   pollCountAfterEdit, pollInterval, editingTimeout, blinkInterval,
                   decorations, polls, messages, timers, sinceEdit, guard>>

\* what no continuation of checkFileStatus touches
PollFrame ==
    UNCHANGED <<config, activeTextEditor, instance, call, currentEditor, isUserEditing,
                pollCountAfterEdit, pollInterval, editingTimeout, messages,
                sinceEdit, guard>>

\* checkFileStatus on the username it got, returning without hiding
onUsernameNoHide(username, sb) ==
    IF username = None
    THEN [statusBar |-> sb, returns |-> TRUE]
    ELSE [statusBar |-> sb, returns |-> FALSE]

\* checkFileStatus on the username it got: without one it hides the status
\* bar and returns
onUsername(username, sb) ==
    IF username = None
    THEN [statusBar |-> Hide(sb), returns |-> TRUE]
    ELSE [statusBar |-> sb, returns |-> FALSE]

\* checkFileStatus resumes after getDefaultUsername: without a default org it
\* hides the status bar and returns; else it asks for the current user id
\* when it has none, and otherwise for the modifier
PollUsernameResponse(i, resp) ==
    /\ polls[i].pc = "getDefaultUsername"
    /\ LET r == onUsername(getDefaultUsername(resp), statusBar)
           p == [polls[i] EXCEPT !.allFailed = @ /\ resp.status # 0]
       IN  /\ statusBar' = r.statusBar
           /\ IF r.returns
              THEN /\ polls' = Without(i)
                   /\ event' = EvPoll("noUsername", p.doc, NoInfo, p.allFailed)
              ELSE /\ polls' = [polls EXCEPT ![i] =
                                  [p EXCEPT !.pc = IF currentUserId = ""
                                                   THEN "getCurrentUserId"
                                                   ELSE "getLastModifiedInfo"]]
                   /\ event' = NoEvent
    /\ UNCHANGED <<lastKnownModifier, currentUserId, blinkInterval, isBlinkYellow,
                   decorations, timers>>
    /\ PollFrame

\* checkFileStatus resumes after getCurrentUserId: it stores the id and asks
\* for the modifier
PollCurrentUserIdResponse(i, orgResp, userResp) ==
    /\ polls[i].pc = "getCurrentUserId"
    /\ currentUserId' = getCurrentUserId(orgResp, userResp)
    /\ polls' = [polls EXCEPT ![i] =
                    [@ EXCEPT !.pc = "getLastModifiedInfo",
                              !.allFailed = @ /\ orgResp.status # 0]]
    /\ event' = NoEvent
    /\ UNCHANGED <<lastKnownModifier, blinkInterval, isBlinkYellow, statusBar,
                   decorations, timers>>
    /\ PollFrame

\* checkFileStatus resumes after getLastModifiedInfo and runs to its end:
\* hide when the modifier is absent; else store it, updateStatusBar and
\* show or clear the decoration
PollLastModifiedResponse(i, toolingResp, listResp) ==
    /\ polls[i].pc = "getLastModifiedInfo"
    /\ LET lastModifiedInfo ==
               getLastModifiedInfo(MonitorInfoOf[polls[i].doc], toolingResp, listResp)
           allFailed == /\ polls[i].allFailed
                        /\ toolingResp.status # 0
                        /\ listResp.status # 0
       IN  /\ polls' = Without(i)
           /\ IF lastModifiedInfo = NoInfo
              THEN /\ statusBar' = Hide(statusBar)
                   /\ event' = EvPoll("absent", polls[i].doc, NoInfo, allFailed)
                   /\ UNCHANGED <<lastKnownModifier, blinkInterval, isBlinkYellow,
                                  decorations, timers>>
              ELSE LET u == updateStatusBar(lastModifiedInfo, statusBar)
                   IN  /\ lastKnownModifier' = lastModifiedInfo
                       /\ statusBar' = u.statusBar
                       /\ blinkInterval' = u.blinkInterval
                       /\ isBlinkYellow' = u.isBlinkYellow
                       /\ timers' = u.timers
                       /\ decorations' = decorate(lastModifiedInfo, decorations)
                       /\ event' = EvPoll("shown", polls[i].doc,
                                          lastModifiedInfo, FALSE)
    /\ UNCHANGED currentUserId
    /\ PollFrame

\* TimeUnit of time passes: no poll timer and no editing timeout is due
\* (a due timer fires first); the blink timer runs beside this clock
Tick ==
    /\ instance
    /\ timers.poll # <<>> \/ timers.editing # <<>> \/ sinceEdit < Horizon
    /\ \A k \in 1..Len(timers.poll) : timers.poll[k] >= TimeUnit
    /\ \A k \in 1..Len(timers.editing) : timers.editing[k] >= TimeUnit
    /\ timers' = [timers EXCEPT
                    !.poll = [k \in 1..Len(@) |-> @[k] - TimeUnit],
                    !.editing = [k \in 1..Len(@) |-> @[k] - TimeUnit]]
    /\ sinceEdit' = IF sinceEdit + TimeUnit > Horizon THEN Horizon
                    ELSE sinceEdit + TimeUnit
    /\ event' = NoEvent
    /\ UNCHANGED <<config, activeTextEditor, instance, call, currentEditor,
                   lastKnownModifier, currentUserId, isUserEditing,
                   pollCountAfterEdit, pollInterval, editingTimeout, blinkInterval,
                   isBlinkYellow, statusBar, decorations, polls, messages, guard>>

\* the command sfdxDeployGuard.showLastModifier: showLastModifierInfo shows
\* the stored record, as the user's own or as someone else's, or that
\* there is none
ShowLastModifier ==
    /\ instance
    /\ messages' = messages \cup
          {IF lastKnownModifier # NoInfo
           THEN [kind |-> IF lastKnownModifier.id = currentUserId THEN "you" ELSE "other",
                 name |-> lastKnownModifier.name, date |-> lastKnownModifier.date]
           ELSE [kind |-> "none", name |-> None, date |-> None]}
    /\ event' = NoEvent
    /\ UNCHANGED <<config, activeTextEditor, instance, call, currentEditor,
                   lastKnownModifier, currentUserId, isUserEditing,
                   pollCountAfterEdit, pollInterval, editingTimeout, blinkInterval,
                   isBlinkYellow, statusBar, decorations, polls, timers, sinceEdit,
                   guard>>

\* the user edits the settings
SetConfig(c) ==
    /\ c # config
    /\ config' = c
    /\ event' = NoEvent
    /\ UNCHANGED <<activeTextEditor, instance, call, monitorVars, guard>>

\* the answers getLastModifiedInfo can get: the enumeration is asked only
\* when the direct lookup gave nothing
ModifierAnswers(metadata) ==
    {<<t, Fail>> : t \in {r \in ToolingResponses :
                            getLastModifiedViaTooling(metadata, r) # NoInfo}}
    \cup {<<Fail, l>> : l \in ListResponses}
    \cup {<<Ok(<<>>), Fail>>}

MonitorAnswers == [d \in Docs |-> ModifierAnswers(MonitorInfoOf[d])]

\* the documents watched in turn
WatchedDocs == {"Foo.cls", "bar.js"}

MonitorNext ==
    \/ \E editor \in WatchedDocs \cup {None} : EditorChanged(editor)
    \/ BlinkTimerFires
    \/ \E i \in 1..Len(polls), resp \in UsernameResponses :
          PollUsernameResponse(i, resp)
    \/ \E i \in 1..Len(polls), o \in OrgDisplayResponses, u \in UserQueryResponses :
          PollCurrentUserIdResponse(i, o, u)
    \/ \E i \in 1..Len(polls) : \E a \in MonitorAnswers[polls[i].doc] :
          PollLastModifiedResponse(i, a[1], a[2])

(***************************************************************************)
(* The monitor with its timers and the clock: documents are opened and     *)
(* edited, the timers fire when due, and the gateway answers.              *)
(***************************************************************************)
\* the documents opened in turn: one both isSalesforceFile and the locator
\* accept, one only the locator accepts
PollingDocs == {"Foo.cls", "Home.page"}

\* the gateway's answers here: it fails or names the org, knows the user,
\* and the direct lookup decides the modifier
PollingUsernames == {Fail, Ok(<<"org">>)}
PollingAnswers == [d \in Docs |-> {a \in MonitorAnswers[d] : a[2] = Fail}]

PollingInit ==
    /\ config = DefaultConfig
    /\ activeTextEditor = None
    /\ instance = TRUE
    /\ call = NoCall
    /\ MonitorInit
    /\ event = NoEvent
    /\ guard = [i \in 1..MaxInvocations |-> IdleInvocation]

PollingNext ==
    \/ \E editor \in PollingDocs \cup {None} : EditorChanged(editor)
    \/ UserTyping
    \/ EditingTimeoutFires
    \/ PollTimerFires
    \/ BlinkTimerFires
    \/ Tick
    \/ \E i \in 1..Len(polls), resp \in PollingUsernames :
          PollUsernameResponse(i, resp)
    \/ \E i \in 1..Len(polls) :
          PollCurrentUserIdResponse(i, Ok(<<"me@org">>), Ok(<<"U1">>))
    \/ \E i \in 1..Len(polls) : \E a \in PollingAnswers[polls[i].doc] :
          PollLastModifiedResponse(i, a[1], a[2])

PollingSpec == PollingInit /\ [][PollingNext]_vars

\* a gateway call of a poll returns
PollAnswered ==
    \/ \E i \in 1..Len(polls), resp \in PollingUsernames :
          PollUsernameResponse(i, resp)
    \/ \E i \in 1..Len(polls) :
          PollCurrentUserIdResponse(i, Ok(<<"me@org">>), Ok(<<"U1">>))
    \/ \E i \in 1..Len(polls) : \E a \in PollingAnswers[polls[i].doc] :
          PollLastModifiedResponse(i, a[1], a[2])

\* the same with the host's scheduling: time passes, a due timer's callback
\* runs, and the gateway's child processes return
PollingFairSpec ==
    /\ PollingSpec
    /\ WF_vars(Tick)
    /\ WF_vars(PollTimerFires)
    /\ WF_vars(EditingTimeoutFires)
    /\ WF_vars(PollAnswered)

(***************************************************************************)
(* The monitor with its command: documents are opened, the gateway         *)
(* answers, and the user asks for the last modifier.                       *)
(***************************************************************************)
\* the documents opened in turn: a metadata file and another file
ShowDocs == {"Foo.cls", "todo.txt"}

ShowNext ==
    \/ \E editor \in ShowDocs \cup {None} : EditorChanged(editor)
    \/ ShowLastModifier
    \/ BlinkTimerFires
    \/ \E i \in 1..Len(polls), resp \in PollingUsernames :
          PollUsernameResponse(i, resp)
    \/ \E i \in 1..Len(polls) :
          PollCurrentUserIdResponse(i, Ok(<<"me@org">>), Ok(<<"U1">>))
    \/ \E i \in 1..Len(polls) : \E a \in PollingAnswers[polls[i].doc] :
          PollLastModifiedResponse(i, a[1], a[2])

ShowSpec == PollingInit /\ [][ShowNext]_vars

(***************************************************************************)
(* The monitor with its timers while a file that is no metadata file is    *)
(* among the documents opened and edited.                                  *)
(***************************************************************************)
\* the documents opened in turn: a metadata file and a file the locator
\* does not recognize
IdleDocs == {"Foo.cls", "todo.txt"}

IdleNext ==
    \/ \E editor \in IdleDocs \cup {None} : EditorChanged(editor)
    \/ UserTyping
    \/ EditingTimeoutFires
    \/ PollTimerFires
    \/ BlinkTimerFires
    \/ Tick
    \/ \E i \in 1..Len(polls), resp \in PollingUsernames :
          PollUsernameResponse(i, resp)
    \/ \E i \in 1..Len(polls) :
          PollCurrentUserIdResponse(i, Ok(<<"me@org">>), Ok(<<"U1">>))
    \/ \E i \in 1..Len(polls) : \E a \in PollingAnswers[polls[i].doc] :
          PollLastModifiedResponse(i, a[1], a[2])

IdleSpec == PollingInit /\ [][IdleNext]_vars

(***************************************************************************)
(* SfdxDeployGuard.  handleDeployCommand runs checkBeforeDeploy and, when   *)
(* it returns true, executeDeploy.  Each operator below is a stretch of    *)
(* checkBeforeDeploy between two awaits, on the invocation's record.        *)
(***************************************************************************)
\* a command argument that is not a Uri: it has no fsPath, and
\* path.basename(undefined) throws in getMetadataInfo
Malformed == "malformed"

\* uri || vscode.window.activeTextEditor?.document.uri
fileUriOf(uri) == IF uri # None THEN uri ELSE activeTextEditor

\* checkBeforeDeploy returns proceed at the place outcome, having shown the
\* notices
Return(inv, proceed, outcome, shown) ==
    [inv EXCEPT !.pc = "checked", !.returned = TRUE, !.proceed = proceed,
                !.outcome = outcome, !.notices = @ \cup shown]

\* checkBeforeDeploy with the two switches combined by "and"
checkBeforeDeployBothOff(inv) ==
    LET fileUri == fileUriOf(inv.uri)
        found == [inv EXCEPT !.fileUri = fileUri]
    IN  IF ~config.enabled /\ ~config.checkLastModified
        THEN Return(inv, TRUE, "disabled", {})
        ELSE IF fileUri = None
        THEN Return(inv, FALSE, "noFile", {"No file selected for deployment"})
        ELSE IF fileUri = Malformed
        THEN Return(found, TRUE, "threw", {"Error checking metadata"})
        ELSE IF GuardInfoOf[fileUri] = NoMetadata
        THEN Return(found, TRUE, "unrecognized", {"Unable to determine metadata type"})
        ELSE [found EXCEPT !.pc = "getDefaultUsername", !.queried = TRUE]

\* checkBeforeDeploy whose catch returns false
checkBeforeDeployFailClosed(inv) ==
    LET fileUri == fileUriOf(inv.uri)
        found == [inv EXCEPT !.fileUri = fileUri]
    IN  IF ~config.enabled \/ ~config.checkLastModified
        THEN Return(inv, TRUE, "disabled", {})
        ELSE IF fileUri = None
        THEN Return(inv, FALSE, "noFile", {"No file selected for deployment"})
        ELSE IF fileUri = Malformed
        THEN Return(found, FALSE, "threw", {"Error checking metadata"})
        ELSE IF GuardInfoOf[fileUri] = NoMetadata
        THEN Return(found, TRUE, "unrecognized", {"Unable to determine metadata type"})
        ELSE [found EXCEPT !.pc = "getDefaultUsername", !.queried = TRUE]

\* checkBeforeDeploy up to its first gateway call: the switches, the file,
\* getMetadataInfo (which throws into the inner catch on a malformed uri)
checkBeforeDeploy(inv) ==
    LET fileUri == fileUriOf(inv.uri)
        found == [inv EXCEPT !.fileUri = fileUri]
    IN  IF ~config.enabled \/ ~config.checkLastModified
        THEN Return(inv, TRUE, "disabled", {})
        ELSE IF fileUri = None
        THEN Return(inv, FALSE, "noFile", {"No file selected for deployment"})
        ELSE IF fileUri = Malformed
        THEN Return(found, TRUE, "threw", {"Error checking metadata"})
        ELSE IF GuardInfoOf[fileUri] = NoMetadata
        THEN Return(found, TRUE, "unrecognized", {"Unable to determine metadata type"})
        ELSE [found EXCEPT !.pc = "getDefaultUsername", !.queried = TRUE]

\* checkBeforeDeploy blocking the deployment when there is no default org
onGuardUsernameBlocks(inv, username) ==
    IF username = None
    THEN Return(inv, FALSE, "noOrg", {"No default org found"})
    ELSE [inv EXCEPT !.pc = "getLastModifiedInfo"]

\* checkBeforeDeploy on the username it got
onGuardUsername(inv, username) ==
    IF username = None
    THEN Return(inv, TRUE, "noOrg", {"No default org found"})
    ELSE [inv EXCEPT !.pc = "getLastModifiedInfo"]

\* checkBeforeDeploy on the modifier record it got
onGuardLastModified(inv, lastModifiedInfo) ==
    IF lastModifiedInfo = NoInfo
    THEN Return(inv, TRUE, "absent", {})
    ELSE [inv EXCEPT !.pc = "getCurrentUserId", !.info = lastModifiedInfo]

\* checkBeforeDeploy on the current user id it got: the ignore list is read,
\* the two ids are compared, and either the modal warning is shown or a
\* notice is shown and true returned
onGuardCurrentUserId(inv, userId) ==
    LET ignored == isIgnoredUser(inv.info.id, config.ignoreUserIds)
        seen == [inv EXCEPT !.currentUserId = userId,
                            !.ignoreUserIds = config.ignoreUserIds,
                            !.classified = TRUE]
    IN  IF inv.info.id # "" /\ userId # "" /\ inv.info.id # userId /\ ~ignored
        THEN [seen EXCEPT !.pc = "dialog", !.dialog = TRUE]
        ELSE IF ignored
        THEN Return(seen, TRUE, "ignored", {"File modified by an ignored user"})
        ELSE Return(seen, TRUE, "same", {"You were the last to modify this file"})

\* checkBeforeDeploy where Compare First also lets the deployment proceed
onChoiceCompareProceeds(inv, choice) ==
    LET chosen == [inv EXCEPT !.choice = choice]
    IN  IF choice = None
        THEN Return(chosen, FALSE, "choice", {"Deployment cancelled"})
        ELSE IF choice = "Compare First"
        THEN [chosen EXCEPT !.pc = "checked", !.returned = TRUE, !.proceed = TRUE,
                            !.outcome = "choice"]
        ELSE Return(chosen, TRUE, "choice", {"Proceeding with deployment"})

\* checkBeforeDeploy on the answer to the modal warning (None: dismissed)
onChoice(inv, choice) ==
    LET chosen == [inv EXCEPT !.choice = choice]
    IN  IF choice = None
        THEN Return(chosen, FALSE, "choice", {"Deployment cancelled"})
        ELSE IF choice = "Compare First"
        THEN [chosen EXCEPT !.pc = "executeCompare", !.compared = inv.fileUri]
        ELSE Return(chosen, TRUE, "choice", {"Proceeding with deployment"})

\* handleDeployCommand calling executeDeploy whatever the check returned
afterCheckAlways(inv) ==
    LET fileUri == fileUriOf(inv.uri)
    IN  IF fileUri = None
        THEN [inv EXCEPT !.pc = "done", !.started = TRUE,
                         !.notices = @ \cup {"No file selected for deployment"}]
        ELSE [inv EXCEPT !.pc = "deployUsername", !.started = TRUE,
                         !.deployed = fileUri]

\* handleDeployCommand after checkBeforeDeploy: executeDeploy(uri) up to its
\* first gateway call when shouldProceed, and nothing otherwise
afterCheck(inv) ==
    LET fileUri == fileUriOf(inv.uri)
    IN  IF ~inv.proceed
        THEN [inv EXCEPT !.pc = "done"]
        ELSE IF fileUri = None
        THEN [inv EXCEPT !.pc = "done", !.started = TRUE,
                         !.notices = @ \cup {"No file selected for deployment"}]
        ELSE [inv EXCEPT !.pc = "deployUsername", !.started = TRUE,
                         !.deployed = fileUri]

\* what no step of an invocation touches
GuardFrame == UNCHANGED <<config, activeTextEditor, instance, call, monitorVars, event>>

\* the command sfdxDeployGuard.deployWithCheck is run with the argument uri
DeployCommand(i, uri) ==
    /\ guard[i].pc \in {"idle", "done"}
    /\ ~guard[i].refresh
    /\ guard' = [guard EXCEPT ![i] =
                    checkBeforeDeploy([IdleInvocation EXCEPT !.uri = uri])]
    /\ GuardFrame

\* checkBeforeDeploy resumes after getDefaultUsername
GuardUsernameResponse(i, resp) ==
    /\ guard[i].pc = "getDefaultUsername"
    /\ guard' = [guard EXCEPT ![i] = onGuardUsername(@, getDefaultUsername(resp))]
    /\ GuardFrame

\* checkBeforeDeploy resumes after getLastModifiedInfo
GuardLastModifiedResponse(i, toolingResp, listResp) ==
    /\ guard[i].pc = "getLastModifiedInfo"
    /\ guard' = [guard EXCEPT ![i] =
                    onGuardLastModified(@, getLastModifiedInfo(GuardInfoOf[@.fileUri],
                                                               toolingResp, listResp))]
    /\ GuardFrame

\* checkBeforeDeploy resumes after getCurrentUserId
GuardCurrentUserIdResponse(i, orgResp, userResp) ==
    /\ guard[i].pc = "getCurrentUserId"
    /\ guard' = [guard EXCEPT ![i] =
                    onGuardCurrentUserId(@, getCurrentUserId(orgResp, userResp))]
    /\ GuardFrame

\* the user answers the modal warning
DialogChoice(i, choice) ==
    /\ guard[i].pc = "dialog"
    /\ guard' = [guard EXCEPT ![i] = onChoice(@, choice)]
    /\ GuardFrame

\* executeCompare returns (it catches whatever it throws), and
\* checkBeforeDeploy returns false
CompareReturns(i) ==
    /\ guard[i].pc = "executeCompare"
    /\ guard' = [guard EXCEPT ![i] =
                    Return(@, FALSE, "choice", {"Comparison opened"})]
    /\ GuardFrame

\* handleDeployCommand resumes with what checkBeforeDeploy returned
CheckReturns(i) ==
    /\ guard[i].pc = "checked"
    /\ guard' = [guard EXCEPT ![i] = afterCheck(@)]
    /\ GuardFrame

\* executeDeploy resumes after getDefaultUsername
DeployUsernameResponse(i, resp) ==
    /\ guard[i].pc = "deployUsername"
    /\ guard' = [guard EXCEPT ![i] =
                    IF getDefaultUsername(resp) = None
                    THEN [@ EXCEPT !.pc = "done",
                                   !.notices = @ \cup {"No default org found"}]
                    ELSE [@ EXCEPT !.pc = "deploying"]]
    /\ GuardFrame

\* the deploy operation ends: it succeeded, it failed, or a step of it
\* threw; unless it threw, the monitor's refresh is scheduled if there is
\* a monitor
DeployFinishes(i, result) ==
    /\ guard[i].pc = "deploying"
    /\ guard' = [guard EXCEPT ![i] =
                    [@ EXCEPT !.pc = "done",
                              !.notices = @ \cup {result},
                              !.refresh = instance /\ result # "Failed to deploy"]]
    /\ GuardFrame

DeployResults == {"Deployment succeeded", "Deployment failed", "Failed to deploy"}

\* the callback of the refresh timeout: refreshCurrentFile
RefreshTimerFires(i) ==
    /\ guard[i].refresh
    /\ guard' = [guard EXCEPT ![i].refresh = FALSE]
    /\ IF currentEditor # None /\ currentEditor \in SalesforceFiles
       THEN /\ CanBegin
            /\ LET c == beginCheck(currentEditor, statusBar)
               IN  /\ statusBar' = c.statusBar
                   /\ polls' = c.polls
                   /\ event' = c.ev
       ELSE /\ event' = NoEvent
            /\ UNCHANGED <<statusBar, polls>>
    /\ UNCHANGED <<config, activeTextEditor, instance, call, currentEditor,
                   lastKnownModifier, currentUserId, isUserEditing,
                   pollCountAfterEdit, pollInterval, editingTimeout, blinkInterval,
                   isBlinkYellow, decorations, messages, timers, sinceEdit>>

\* the active editor changes in a window where no FileMonitor was created
ActiveEditorChanged(editor) ==
    /\ ~instance
    /\ editor # activeTextEditor
    /\ activeTextEditor' = editor
    /\ UNCHANGED <<config, instance, call, monitorVars, event, guard>>

\* the arguments the command is run with
CommandUris == Uris \cup {None, Malformed}

\* the settings the guard reads, varied
GuardConfigs == {c \in Configs : c.enableRealTimeMonitoring}

\* the answers getLastModifiedInfo can get for the file of an invocation
GuardAnswers ==
    [d \in CommandUris |-> IF d \in Uris THEN ModifierAnswers(GuardInfoOf[d]) ELSE {}]

\* the extension activated without a FileMonitor
GuardInit ==
    /\ config = DefaultConfig
    /\ activeTextEditor = None
    /\ instance = FALSE
    /\ call = NoCall
    /\ MonitorInit
    /\ event = NoEvent
    /\ guard = [i \in 1..MaxInvocations |-> IdleInvocation]

GuardNext ==
    \/ \E i \in 1..MaxInvocations, uri \in CommandUris : DeployCommand(i, uri)
    \/ \E i \in 1..MaxInvocations, resp \in UsernameResponses :
          GuardUsernameResponse(i, resp)
    \/ \E i \in 1..MaxInvocations : \E a \in GuardAnswers[guard[i].fileUri] :
          GuardLastModifiedResponse(i, a[1], a[2])
    \/ \E i \in 1..MaxInvocations, o \in OrgDisplayResponses, u \in UserQueryResponses :
          GuardCurrentUserIdResponse(i, o, u)
    \/ \E i \in 1..MaxInvocations, choice \in {None, "Compare First", "Deploy Anyway"} :
          DialogChoice(i, choice)
    \/ \E i \in 1..MaxInvocations : CompareReturns(i)
    \/ \E i \in 1..MaxInvocations : CheckReturns(i)
    \/ \E i \in 1..MaxInvocations, resp \in UsernameResponses :
          DeployUsernameResponse(i, resp)
    \/ \E i \in 1..MaxInvocations, result \in DeployResults : DeployFinishes(i, result)
    \/ \E editor \in Docs \cup {None} : ActiveEditorChanged(editor)
    \/ \E c \in GuardConfigs : SetConfig(c)

GuardSpec == GuardInit /\ [][GuardNext]_vars

(***************************************************************************)
(* The guard and the monitor together: a deployment, while documents are   *)
(* opened and edited and the monitor's timers run, and the refresh of the  *)
(* monitor the deployment schedules.  The check before the deployment is   *)
(* switched off, so that the command goes straight to executeDeploy.       *)
(***************************************************************************)
DeployInit ==
    /\ config = [DefaultConfig EXCEPT !.checkLastModified = FALSE]
    /\ activeTextEditor = None
    /\ instance = TRUE
    /\ call = NoCall
    /\ MonitorInit
    /\ event = NoEvent
    /\ guard = [i \in 1..MaxInvocations |-> IdleInvocation]

\* the one answer of the direct lookup here: a record of another identity
DeployAnswers ==
    [d \in Docs |-> {a \in PollingAnswers[d] :
                       getLastModifiedViaTooling(MonitorInfoOf[d], a[1]).id = "U2"}]

DeployNext ==
    \/ \E editor \in PollingDocs \cup {None} : EditorChanged(editor)
    \/ UserTyping
    \/ EditingTimeoutFires
    \/ PollTimerFires
    \/ Tick
    \/ \E i \in 1..Len(polls) : PollUsernameResponse(i, Ok(<<"org">>))
    \/ \E i \in 1..Len(polls) :
          PollCurrentUserIdResponse(i, Ok(<<"me@org">>), Ok(<<"U1">>))
    \/ \E i \in 1..Len(polls) : \E a \in DeployAnswers[polls[i].doc] :
          PollLastModifiedResponse(i, a[1], a[2])
    \/ \E i \in 1..MaxInvocations, uri \in PollingDocs \cup {None} :
          DeployCommand(i, uri)
    \/ \E i \in 1..MaxInvocations : CheckReturns(i)
    \/ \E i \in 1..MaxInvocations : DeployUsernameResponse(i, Ok(<<"org">>))
    \/ \E i \in 1..MaxInvocations, result \in DeployResults : DeployFinishes(i, result)
    \/ \E i \in 1..MaxInvocations : RefreshTimerFires(i)

DeploySpec == DeployInit /\ [][DeployNext]_vars

(***************************************************************************)
(* The guard and the monitor while the user switches the settings enabled  *)
(* and enableRealTimeMonitoring: one metadata file is opened, edited and   *)
(* deployed.                                                               *)
(***************************************************************************)
\* the settings switched between
SettingsConfigs == {c \in Configs : c.checkLastModified /\ c.ignoreUserIds = <<>>}

\* the answers getLastModifiedInfo gets for the file deployed: a record of
\* another identity
SettingsAnswers ==
    [d \in CommandUris |-> IF d \in Docs THEN DeployAnswers[d] ELSE {}]

SettingsInit ==
    /\ config = DefaultConfig
    /\ activeTextEditor = None
    /\ instance = TRUE
    /\ call = NoCall
    /\ MonitorInit
    /\ event = NoEvent
    /\ guard = [i \in 1..MaxInvocations |-> IdleInvocation]

SettingsNext ==
    \/ \E c \in SettingsConfigs : SetConfig(c)
    \/ \E editor \in {"Foo.cls", None} : EditorChanged(editor)
    \/ UserTyping
    \/ EditingTimeoutFires
    \/ PollTimerFires
    \/ Tick
    \/ \E i \in 1..Len(polls) : PollUsernameResponse(i, Ok(<<"org">>))
    \/ \E i \in 1..Len(polls) :
          PollCurrentUserIdResponse(i, Ok(<<"me@org">>), Ok(<<"U1">>))
    \/ \E i \in 1..Len(polls) : \E a \in DeployAnswers[polls[i].doc] :
          PollLastModifiedResponse(i, a[1], a[2])
    \/ \E i \in 1..MaxInvocations : DeployCommand(i, None)
    \/ \E i \in 1..MaxInvocations : GuardUsernameResponse(i, Ok(<<"org">>))
    \/ \E i \in 1..MaxInvocations : \E a \in SettingsAnswers[guard[i].fileUri] :
          GuardLastModifiedResponse(i, a[1], a[2])
    \/ \E i \in 1..MaxInvocations :
          GuardCurrentUserIdResponse(i, Ok(<<"me@org">>), Ok(<<"U1">>))
    \/ \E i \in 1..MaxInvocations : DialogChoice(i, "Deploy Anyway")
    \/ \E i \in 1..MaxInvocations : CheckReturns(i)
    \/ \E i \in 1..MaxInvocations : DeployUsernameResponse(i, Ok(<<"org">>))
    \/ \E i \in 1..MaxInvocations : DeployFinishes(i, "Deployment succeeded")
    \/ \E i \in 1..MaxInvocations : RefreshTimerFires(i)

SettingsSpec == SettingsInit /\ [][SettingsNext]_vars

(***************************************************************************)
(* The helpers that touch no field, each looked at by itself: it is called *)
(* once with arguments drawn from the model's paths, records and answers,  *)
(* and the call is kept with what it returned.                             *)
(***************************************************************************)
\* what a call of a helper leaves alone
CallFrame ==
    UNCHANGED <<config, activeTextEditor, instance, monitorVars, event, guard>>

HelperInit ==
    /\ config = DefaultConfig
    /\ activeTextEditor = None
    /\ instance = TRUE
    /\ call = NoCall
    /\ MonitorInit
    /\ event = NoEvent
    /\ guard = [i \in 1..MaxInvocations |-> IdleInvocation]

\* the artifacts getLastModifiedInfo is asked about
OracleMetadata == {GuardInfoOf[d] : d \in Uris} \ {NoMetadata}

\* getLastModifiedInfo(metadata, username) is called and the gateway
\* answers; enumerated: getLastModifiedViaListMetadata was called
ResolveLastModifier(metadata, toolingResp, listResp) ==
    /\ call' = [fn |-> "getLastModifiedInfo", metadata |-> metadata,
                toolingResp |-> toolingResp, listResp |-> listResp,
                enumerated |-> getLastModifiedViaTooling(metadata, toolingResp) = NoInfo,
                result |-> getLastModifiedInfo(metadata, toolingResp, listResp)]
    /\ CallFrame

OracleNext ==
    \E metadata \in OracleMetadata, toolingResp \in ToolingResponses,
       listResp \in ListResponses :
          ResolveLastModifier(metadata, toolingResp, listResp)

OracleSpec == HelperInit /\ [][OracleNext]_vars

\* the directories of single files the paths lie in, with the suffix of
\* their files, and those of bundles
FileDirs ==
    [classes |-> ".cls", triggers |-> ".trigger", pages |-> ".page",
     components |-> ".component", objects |-> ".object", flows |-> ".flow",
     layouts |-> ".layout", tabs |-> ".tab", notes |-> ".txt"]
BundleDirs == {"lwc", "aura"}

\* the project directories the paths lie under
Roots ==
    {<<"/", "force-app">>, <<"/", "src">>,
     <<"/", "force-app", "/", "main", "/", "default">>}

\* the paths getMetadataInfo is asked about: a source file, its -meta.xml
\* companion, or a file of a bundle
LocatorPaths ==
    {root \o <<"/", dir, "/", name, FileDirs[dir]>> :
        root \in Roots, dir \in DOMAIN FileDirs, name \in {"Foo", "bar"}}
    \cup {root \o <<"/", dir, "/", name, FileDirs[dir], "-meta.xml">> :
        root \in Roots, dir \in DOMAIN FileDirs, name \in {"Foo", "bar"}}
    \cup {root \o <<"/", dir, "/", name, "/", name, ".js">> :
        root \in Roots, dir \in BundleDirs, name \in {"Foo", "bar"}}

\* getMetadataInfo(fileUri) of the monitor and of the guard are called on
\* the same path
LocateMetadata(filePath) ==
    /\ call' = [fn |-> "getMetadataInfo", filePath |-> filePath,
                monitor |-> MonitorMetadataInfo(filePath),
                guard |-> GuardMetadataInfo(filePath)]
    /\ CallFrame

LocatorNext == \E filePath \in LocatorPaths : LocateMetadata(filePath)

LocatorSpec == HelperInit /\ [][LocatorNext]_vars

\* the modifier records the gateway can hand to either component
ClassifyInfos ==
    {getLastModifiedInfo(metadata, toolingResp, listResp) :
        metadata \in OracleMetadata, toolingResp \in ToolingResponses,
        listResp \in ListResponses} \ {NoInfo}

\* a watched metadata file, the Ignore Set and the current user's id as the
\* who-am-I lookup left it ("" when it failed)
ClassifyInit ==
    /\ config \in {[DefaultConfig EXCEPT !.ignoreUserIds = s] : s \in IgnoreStrings}
    /\ activeTextEditor \in {"Foo.cls", "bar.js"}
    /\ instance = TRUE
    /\ call = NoCall
    /\ currentEditor = activeTextEditor
    /\ lastKnownModifier = NoInfo
    /\ currentUserId \in {""} \cup UserIds
    /\ isUserEditing = FALSE
    /\ pollCountAfterEdit = 0
    /\ pollInterval = 0
    /\ editingTimeout = "none"
    /\ blinkInterval = 0
    /\ isBlinkYellow = TRUE
    /\ statusBar = NewStatusBar
    /\ decorations = {}
    /\ polls = <<>>
    /\ messages = {}
    /\ timers = NoTimers
    /\ sinceEdit = Horizon
    /\ event = NoEvent
    /\ guard = [i \in 1..MaxInvocations |-> IdleInvocation]

\* the same record, current user and Ignore Set given to the monitor's
\* classification (updateStatusBar and the decoration branch of
\* checkFileStatus) and to the guard's (the condition of checkBeforeDeploy)
Classify(lastModifiedInfo) ==
    /\ call' = [fn |-> "classify", info |-> lastModifiedInfo,
                blinking |-> updateStatusBar(lastModifiedInfo, statusBar).blinkInterval # 0,
                decorated |-> currentEditor \in decorate(lastModifiedInfo, decorations),
                dialog |-> onGuardCurrentUserId(
                               [IdleInvocation EXCEPT !.info = lastModifiedInfo],
                               currentUserId).dialog]
    /\ CallFrame

ClassifyNext == \E lastModifiedInfo \in ClassifyInfos : Classify(lastModifiedInfo)

ClassifySpec == ClassifyInit /\ [][ClassifyNext]_vars

Next == MonitorNext

Spec == Init /\ [][Next]_vars

(***************************************************************************)
(* Properties of the deploy guard, on the records of the invocations.      *)
(***************************************************************************)
Invocations == 1..MaxInvocations

\* C1 as stated: once checkBeforeDeploy has compared the modifier's id with
\* the current user's, it has shown the modal warning exactly when the two
\* ids differ and the modifier's id is not in the Ignore Set, whatever the
\* two ids are; and when it has not, it has returned true after a notice
C1_DialogIffDiffers ==
    \A i \in Invocations :
        guard[i].classified =>
            /\ guard[i].dialog <=>
                  /\ guard[i].info.id # guard[i].currentUserId
                  /\ <<guard[i].info.id>> \notin getIgnoredUserIds(guard[i].ignoreUserIds)
            /\ ~guard[i].dialog =>
                  /\ guard[i].returned /\ guard[i].proceed
                  /\ guard[i].notices # {}

\* C2: once checkBeforeDeploy has returned after showing the modal warning,
\* Deploy Anyway made it return true without a comparison, Compare First
\* made it call executeCompare on the checked file and return false, and
\* dismissal made it return false without a comparison; while
\* executeCompare runs it has not returned
C2_ChoiceDecides ==
    \A i \in Invocations :
        /\ (guard[i].dialog /\ guard[i].returned) =>
              /\ guard[i].choice = "Deploy Anyway" =>
                    guard[i].proceed /\ guard[i].compared = None
              /\ guard[i].choice = "Compare First" =>
                    ~guard[i].proceed /\ guard[i].compared = guard[i].fileUri
              /\ guard[i].choice = None =>
                    ~guard[i].proceed /\ guard[i].compared = None
        /\ (guard[i].compared # None /\ ~guard[i].returned) =>
              /\ guard[i].choice = "Compare First"
              /\ guard[i].compared = guard[i].fileUri

\* Compare First was chosen, executeCompare was called on the checked file
\* and checkBeforeDeploy returned false
C2_Witness ==
    \E i \in Invocations :
        /\ guard[i].dialog /\ guard[i].returned
        /\ guard[i].choice = "Compare First"
        /\ guard[i].compared = "Foo.cls"
        /\ ~guard[i].proceed

\* C3: executeDeploy has been called in an invocation only if that
\* invocation's checkBeforeDeploy has returned true
C3_DeployAfterProceed ==
    \A i \in Invocations :
        guard[i].started => (guard[i].returned /\ guard[i].proceed)

\* an invocation ended after the warning was dismissed or Compare First was
\* chosen, and executeDeploy was not called in it
C3_Witness ==
    \E i \in Invocations :
        /\ guard[i].pc = "done"
        /\ guard[i].dialog /\ guard[i].returned /\ ~guard[i].proceed
        /\ ~guard[i].started

\* C4: with a file selected, checkBeforeDeploy returns true whenever it
\* returns without having shown the modal warning: on an unrecognized
\* metadata type, without a default org, without a modifier record, and
\* when a step throws
C4_FailOpen ==
    \A i \in Invocations :
        (guard[i].returned /\ guard[i].fileUri # None /\ ~guard[i].dialog) =>
            guard[i].proceed

\* getMetadataInfo threw on the argument of the command, and
\* checkBeforeDeploy returned true
C4_Witness ==
    \E i \in Invocations :
        /\ guard[i].returned /\ guard[i].proceed
        /\ guard[i].outcome = "threw"

\* C5: a command run while enabled or checkLastModified is false has its
\* checkBeforeDeploy return true in the same step, with no gateway call
\* made, no modal warning and no notice shown
C5_DisabledProceeds ==
    [][\A i \in Invocations :
          (/\ guard[i].pc \in {"idle", "done"}
           /\ guard'[i] # guard[i]
           /\ (~config.enabled \/ ~config.checkLastModified)) =>
              /\ guard'[i].returned /\ guard'[i].proceed
              /\ ~guard'[i].queried
              /\ ~guard'[i].dialog
              /\ guard'[i].notices = {}]_vars

\* with checkLastModified off and enabled on, the check of a recognized
\* file returned true with no gateway call, and executeDeploy was called
C5_Witness ==
    \E i \in Invocations :
        /\ ~config.checkLastModified /\ config.enabled
        /\ guard[i].outcome = "disabled" /\ guard[i].uri = "Foo.cls"
        /\ guard[i].returned /\ guard[i].proceed /\ ~guard[i].queried
        /\ guard[i].deployed = "Foo.cls"

(***************************************************************************)
(* Properties of the conflict monitor, on the poll that ended in the step  *)
(* just taken (event).                                                     *)
(***************************************************************************)
\* the Ignore Set holds id
InIgnoreSet(id) == <<id>> \in getIgnoredUserIds(config.ignoreUserIds)

\* a poll just completed with a modifier record
PollShown == event.poll = "shown"

\* the conflict decoration is on the watched document
Decorated == currentEditor # None /\ currentEditor \in decorations

C7_SameUserQuiet ==
    (PollShown /\ event.info.id = currentUserId) =>
        /\ blinkInterval = 0
        /\ ~Decorated

\* a poll completed with the current user's own record on the watched
\* document, right after which another document still carries the
\* decoration of an earlier conflict
C7_Witness ==
    /\ PollShown /\ event.info.id = "U1" /\ currentUserId = "U1"
    /\ currentEditor = event.doc
    /\ decorations # {}

\* C8 as stated: after a poll that completes with a modifier record whose
\* id is in the Ignore Set, the indicator shows the modifier's name and
\* timestamp, no blink timer runs and no conflict decoration is applied
C8_IgnoredShowsName ==
    (PollShown /\ InIgnoreSet(event.info.id)) =>
        /\ statusBar.visible
        /\ statusBar.text = [who |-> event.info.name, date |-> event.info.date]
        /\ blinkInterval = 0
        /\ ~Decorated

\* C8: after a poll that completes with a modifier record whose id is in
\* the Ignore Set, no blink timer runs and no conflict decoration is
\* applied, and the indicator shows the timestamp with the modifier's name
\* when the id differs from the current user's, and with "You" when it is
\* the current user's
C8_IgnoredQuiet ==
    (PollShown /\ InIgnoreSet(event.info.id)) =>
        /\ statusBar.visible
        /\ statusBar.text =
              [who  |-> IF event.info.id = currentUserId THEN "You"
                        ELSE event.info.name,
               date |-> event.info.date]
        /\ blinkInterval = 0
        /\ ~Decorated

\* a poll completed with the record of U2, who is ignored and is not the
\* current user
C8_Witness ==
    /\ PollShown /\ event.info.id = "U2" /\ InIgnoreSet("U2")
    /\ currentUserId # "U2"
    /\ currentEditor = event.doc
    /\ statusBar.text.who = "Jane"

\* C9: a poll all of whose gateway calls failed ends with the indicator
\* hidden and no message shown
C9_FailedPollHides ==
    (event.poll # None /\ event.failed) =>
        /\ ~statusBar.visible
        /\ messages = {}

\* a poll whose gateway calls all failed ended while the watched document
\* still blinked from an earlier conflict
C9_Witness ==
    /\ event.poll # None /\ event.failed
    /\ lastKnownModifier # NoInfo
    /\ blinkInterval # 0

\* C10 as stated: a poll that ends for a document other than the watched
\* one changes neither the stored modifier record, nor the indicator, nor
\* the decorations
C10_NoStalePoll ==
    [][(event'.poll # None /\ currentEditor' # None /\ event'.doc # currentEditor')
          => UNCHANGED <<lastKnownModifier, statusBar, blinkInterval, decorations>>]_vars

(***************************************************************************)
(* Claims about the monitor's timers and its polling cycle.                *)
(***************************************************************************)
\* the step taken is onEditorChanged: the active editor changed
EditorChangeStep == activeTextEditor' # activeTextEditor

\* the step taken is onUserTyping, some time after the edit before it: the
\* clock of the edits restarts
EditStep == sinceEdit # 0 /\ sinceEdit' = 0

\* the step taken is a firing of the poll timer: a due poll timer is re-armed
\* or cleared while the same document stays open
PollTimerStep ==
    /\ \E k \in 1..Len(timers.poll) : timers.poll[k] = 0
    /\ timers'.poll # timers.poll
    /\ activeTextEditor' = activeTextEditor

\* the step taken is the firing of the editing timeout the field holds
EditingTimeoutStep == editingTimeout = "pending" /\ editingTimeout' = "fired"

\* the step taken issued a poll: checkFileStatus ran for a document, to
\* its first gateway call or to an early return
PollIssued ==
    \/ Len(polls') = Len(polls) + 1
    \/ event'.poll \in {"disabled", "unrecognized"}

\* C11: whenever the watched document changes (to another document, to an
\* unrecognized file or to none), every pending timer of the previous
\* session, the poll timer, the inactivity timer and the blink timer, is
\* cancelled by the time the handler has issued the poll for the new document
C11_TimersCancelledOnChange ==
    [][EditorChangeStep => timers' = NoTimers]_vars

\* C12: in every reachable state at most one poll timer, at most one
\* inactivity timer and at most one blink timer are outstanding
C12_OneTimerOfEachKind ==
    /\ Len(timers.poll) <= 1
    /\ Len(timers.editing) <= 1
    /\ Len(timers.blink) <= 1

\* one timer of each kind is outstanding, the poll timer having fired and
\* the document having been edited again since
C12_Witness ==
    /\ Len(timers.poll) = 1 /\ Len(timers.editing) = 1 /\ Len(timers.blink) = 1
    /\ timers.poll[1] < timers.editing[1]
    /\ Len(polls) = 1

\* C13: whenever the active document becomes a file the monitor's locator
\* (getMetadataInfo) recognizes, the handler issues one poll at once and no
\* poll timer is running after it
C13_PollOnOpen ==
    [][(/\ EditorChangeStep
        /\ activeTextEditor' # None
        /\ MonitorInfoOf[activeTextEditor'] # NoMetadata)
          => PollIssued /\ timers'.poll = <<>>]_vars

\* C14: every edit of the watched document, in whatever polling state it
\* arrives, puts the monitor in active polling: the editing flag is set, the
\* count of grace polls is back at 0 of GracePolls, the poll timer is started
\* if none is running and left as it is otherwise, and the one inactivity
\* timeout is due EditingDelay after this edit
C14_EditActivates ==
    [][EditStep =>
         /\ isUserEditing'
         /\ pollCountAfterEdit' = 0
         /\ timers'.poll = IF timers.poll = <<>> THEN <<PollPeriod>> ELSE timers.poll
         /\ pollInterval' # 0
         /\ timers'.editing = <<EditingDelay>>
         /\ editingTimeout' = "pending"]_vars

\* an edit has just arrived while the poll timer was running and a poll
\* awaited the gateway: the poll timer runs on in its period, the count is 0
\* and the timeout is set anew
C14_Witness ==
    /\ sinceEdit = 0
    /\ isUserEditing
    /\ pollCountAfterEdit = 0
    /\ timers.poll = <<TimeUnit>>
    /\ timers.editing = <<EditingDelay>>
    /\ Len(polls) = 1

\* C15: when the inactivity timeout fires the poll timer is running and no
\* grace poll is counted; from then on the count changes only by a firing of
\* the poll timer (by one), an edit or a change of document (to 0); a
\* firing of the poll timer after the timeout issues a poll and runs on
\* while fewer than GracePolls are counted, and otherwise issues no poll and
\* stops the poll timer.  So without an edit or a change of document the
\* next two firings poll and the third stops the timer.
C15_TwoGracePolls ==
    [][/\ EditingTimeoutStep =>
            /\ ~isUserEditing'
            /\ pollCountAfterEdit' = 0
            /\ timers'.poll # <<>>
       /\ pollCountAfterEdit' # pollCountAfterEdit =>
            \/ pollCountAfterEdit' = 0 /\ (sinceEdit' = 0 \/ EditorChangeStep)
            \/ PollTimerStep /\ pollCountAfterEdit' = pollCountAfterEdit + 1
       /\ (PollTimerStep /\ ~isUserEditing) =>
            IF pollCountAfterEdit < GracePolls
            THEN /\ PollIssued
                 /\ pollCountAfterEdit' = pollCountAfterEdit + 1
                 /\ timers'.poll = <<PollPeriod>>
            ELSE /\ ~PollIssued
                 /\ timers'.poll = <<>>
                 /\ pollInterval' = 0]_vars

\* the poll timer has stopped itself after two grace polls, within the
\* measured time of the last edit
C15_Witness ==
    /\ pollCountAfterEdit = GracePolls
    /\ timers.poll = <<>>
    /\ pollInterval = 0
    /\ sinceEdit < Horizon
    /\ currentEditor # None

\* C16: every poll the poll timer issues is issued no later than three poll
\* periods (30 s) after the last edit of the watched document; and a running
\* poll timer leads to the poll timer stopped or a fresh edit, so that once
\* the edits stop the timer stops and issues no poll until the next edit
C16_PollingBounded ==
    /\ [][(PollTimerStep /\ PollIssued) => sinceEdit <= 3 * PollPeriod]_vars
    /\ (timers.poll # <<>>) ~> (timers.poll = <<>> \/ sinceEdit = 0)

\* the second grace poll is awaiting the gateway, issued three poll periods
\* after the last edit
C16_Witness ==
    /\ sinceEdit = 3 * PollPeriod
    /\ pollCountAfterEdit = GracePolls
    /\ timers.poll = <<PollPeriod>>
    /\ polls # <<>>

\* C17: a poll that completes with the modifier record the poll before it
\* showed, while the blink timer runs for that conflict and the conflict
\* stays, leaves the label and the phase of the blinking as they are: the
\* colour changes only when the blink timer fires
C17_PollKeepsBlink ==
    [][(/\ event'.poll = "shown"
        /\ event'.info = lastKnownModifier
        /\ blinkInterval # 0
        /\ blinkInterval' # 0
        /\ statusBar.visible)
          => /\ statusBar'.text = statusBar.text
             /\ statusBar'.color = statusBar.color
             /\ isBlinkYellow' = isBlinkYellow]_vars

(***************************************************************************)
(* Claims about the refresh after a deployment and about the settings.     *)
(***************************************************************************)
\* the step taken is the callback of the refresh timeout of a deployment
RefreshStep == \E i \in Invocations : guard[i].refresh /\ ~guard'[i].refresh

\* C18: when the deployment operation of executeDeploy ends, succeeded or
\* failed, one refresh of the monitor is scheduled; when its timeout fires
\* the monitor issues a poll of the document it watches, if the locator
\* recognizes it, and leaves the poll timer, the inactivity timeout, the
\* editing flag and the count of grace polls as they are
C18_ForcedPoll ==
    [][/\ \A i \in Invocations :
            (/\ guard[i].pc = "deploying"
             /\ guard'[i].notices \cap {"Deployment succeeded", "Deployment failed"} # {})
               => guard'[i].refresh
       /\ RefreshStep =>
            /\ (currentEditor # None /\ MonitorInfoOf[currentEditor] # NoMetadata)
                  => PollIssued
            /\ timers'.poll = timers.poll /\ pollInterval' = pollInterval
            /\ timers'.editing = timers.editing /\ editingTimeout' = editingTimeout
            /\ isUserEditing' = isUserEditing
            /\ pollCountAfterEdit' = pollCountAfterEdit]_vars

\* the step taken issued a gateway call of the monitor: a poll began with
\* its first call, or a poll went on to its next call
QueryIssued ==
    \/ Len(polls') = Len(polls) + 1
    \/ Len(polls') = Len(polls) /\ polls' # polls

\* C19: while enableRealTimeMonitoring is false no poll of the monitor makes
\* a gateway call, and a poll that ends leaves the status bar item hidden
C19_DisabledSilent ==
    [][(~config.enableRealTimeMonitoring /\ ~config'.enableRealTimeMonitoring)
          => /\ ~QueryIssued
             /\ event'.poll # None => ~statusBar'.visible]_vars

\* C20: while enabled is false no check of the guard and no poll of the
\* monitor begins its gateway calls
C20_KillSwitch ==
    [][(~config.enabled /\ ~config'.enabled)
          => /\ Len(polls') <= Len(polls)
             /\ \A i \in Invocations :
                  guard'[i].pc = "getDefaultUsername" => guard[i].pc = "getDefaultUsername"]_vars

(***************************************************************************)
(* Claims about the helpers.                                               *)
(***************************************************************************)
\* the direct lookup was made and succeeded with a record
DirectHit ==
    /\ call.metadata.type \in ToolingTypes
    /\ call.toolingResp.status = 0
    /\ Len(call.toolingResp.result) > 0

\* the entries of the enumeration that fit the logical name, by position
Fitting ==
    IF call.listResp.status # 0 THEN {}
    ELSE {k \in 1..Len(call.listResp.result) :
            \/ call.listResp.result[k].fullName = call.metadata.apiName
            \/ Includes(call.listResp.result[k].fileName, call.metadata.apiName)}

C22_SameLocator ==
    call.fn = "getMetadataInfo" => call.monitor = call.guard

\* the path lies under a classes, triggers, pages or components directory
InNamedDir ==
    \E dir \in {"classes", "triggers", "pages", "components"} :
        Includes(call.filePath, <<"/", dir, "/">>)

\* C23: for a path under a classes, triggers, pages or components
\* directory the logical name is the base name without its suffix, the
\* same for a source file and for its -meta.xml companion
C23_SuffixStripped ==
    (call.fn = "getMetadataInfo" /\ InNamedDir) =>
        /\ call.monitor.apiName = <<Head(Basename(call.filePath))>>
        /\ call.guard.apiName = <<Head(Basename(call.filePath))>>

(***************************************************************************)
(* Claims about the monitor's session and its overlapping polls.           *)
(***************************************************************************)
\* C24: whenever the watched document changes the stored modifier record
\* becomes null, together with the editing flag and the count of grace
\* polls; so showLastModifierInfo shows no record while no document is
\* watched (a record then stems from a document watched before)
C24_SessionReset ==
    [][/\ EditorChangeStep =>
            /\ lastKnownModifier' = NoInfo
            /\ ~isUserEditing'
            /\ pollCountAfterEdit' = 0
       /\ currentEditor = None =>
            \A m \in messages' \ messages : m.kind = "none"]_vars

(***************************************************************************)
(* Further claims about the deploy guard.                                  *)
(***************************************************************************)
\* C25: for an invocation of the command without a file argument, the file
\* executeDeploy deploys is the file checkBeforeDeploy checked, whatever
\* happened to the active editor while the check awaited the gateway or
\* the dialog
C25_DeploysCheckedFile ==
    \A i \in Invocations :
        (guard[i].started /\ guard[i].uri = None /\ guard[i].fileUri # None)
            => guard[i].deployed = guard[i].fileUri

\* C26: the results of polls are applied in the order the polls began: a
\* poll that ends after a poll begun later has ended leaves alone the
\* status bar item, the stored modifier record and the decorations, which
\* the later poll has set
C26_PollsInOrder ==
    [][\A i \in 1..Len(polls) :
          (polls' = Without(i) /\ event'.poll # None /\ polls[i].overtaken)
             => UNCHANGED <<lastKnownModifier, statusBar, decorations>>]_vars

\* C27: whenever the status bar item is hidden, after a poll that hid it or
\* after a switch of document, no blink timer is outstanding and the
\* watched document carries no conflict decoration
C27_HiddenIsQuiet ==
    ~statusBar.visible =>
        /\ timers.blink = <<>>
        /\ blinkInterval = 0
        /\ (currentEditor # None => currentEditor \notin decorations)

\* C28 as stated: for every modifier id, current-user id and Ignore Set,
\* empty ids included, the monitor classifies the record as a conflict
\* (blinking warning indicator, warning decoration) exactly when
\* checkBeforeDeploy shows its modal warning for it
C28_SameClassification ==
    call.fn = "classify" =>
        /\ call.blinking <=> call.dialog
        /\ call.decorated <=> call.dialog

\* C29, amended: checkBeforeDeploy returns false only after the modal
\* warning was dismissed or answered Compare First, or when there is no file
\* to check (no file reference and no active editor), where it shows "No
\* file selected for deployment"; every other run that shows no dialog
\* returns true
C29_BlocksOnlyByChoice ==
    \A i \in Invocations :
        guard[i].returned =>
            /\ ~guard[i].proceed =>
                  \/ /\ guard[i].dialog
                     /\ guard[i].outcome = "choice"
                     /\ guard[i].choice \in {None, "Compare First"}
                  \/ /\ ~guard[i].dialog
                     /\ guard[i].outcome = "noFile"
                     /\ guard[i].uri = None /\ guard[i].fileUri = None
                     /\ "No file selected for deployment" \in guard[i].notices
            /\ (~guard[i].dialog /\ guard[i].outcome # "noFile") => guard[i].proceed

\* a check that showed no dialog has returned true, without a default org
C29_Witness ==
    \E i \in Invocations :
        /\ guard[i].returned /\ guard[i].proceed
        /\ ~guard[i].dialog
        /\ guard[i].outcome = "noOrg"

\* C29 as stated: checkBeforeDeploy returns false only after the modal
\* warning was dismissed or answered Compare First, and every run that
\* shows no dialog returns true
C29_OnlyChoiceBlocks ==
    \A i \in Invocations :
        guard[i].returned =>
            /\ ~guard[i].proceed =>
                  /\ guard[i].dialog
                  /\ guard[i].choice \in {None, "Compare First"}
            /\ ~guard[i].dialog => guard[i].proceed

\* C30 as stated: while the monitor is Idle, that is while no document is
\* watched or the watched document is not a recognized metadata file, no
\* poll timer and no inactivity timer is outstanding (an edit of such a
\* document starts none)
C30_IdleHasNoTimers ==
    (currentEditor = None \/ MonitorInfoOf[currentEditor] = NoMetadata) =>
        /\ timers.poll = <<>> /\ pollInterval = 0
        /\ timers.editing = <<>>

====
